---------------------------- MODULE Spec2Model ----------------------------
(***************************************************************************)
(* Model of database.py of the e-voting application: the connection        *)
(* provider get_db, hash_password, the schema initializer init_db and the  *)
(* constituency lister get_constituencies, together with the two storage   *)
(* engines the module talks to (sqlite3 for the local file, psycopg2 /     *)
(* PostgreSQL for the hosted service) as far as the statements of the      *)
(* module exercise them.                                                   *)
(***************************************************************************)
EXTENDS Integers, Sequences, FiniteSets, TLC

\* --------------------------------------------------------------- bounds
\* Longest DATABASE_URL, in chunks, drawn for the environment.
MaxUrlLen == 4
\* Calls of init_db started in one behaviour.
MaxInit == 3
\* Calls of get_constituencies in one behaviour.
MaxList == 2
\* Failures of the environment (a refused connection, a statement that
\* fails for a reason outside the module) in one behaviour.
MaxFaults == 1
\* Statements issued by callers outside this module in one behaviour.
MaxExt == 2
\* The same, where the callers are the ones that cast votes.
MaxVoteExt == 6
\* The same, where the callers manage administrators while processes start
\* up concurrently.
MaxRaceExt == 1

\* ------------------------------------------------------------ values
\* An environment variable is <<>> when unset and <<value>> when set.
Absent == <<>>

Set(v) == <<v>>
None == "<none>"
NULL == "<null>"

\* The processes that import the module.
Procs == {"p1", "p2"}

\* ------------------------------------------------------ strings (get_db)
\* A connection string is a sequence of chunks; the chunks are chosen so
\* that 'postgres://' and 'postgresql://' are both spelled with them and
\* the first is not a prefix of the second.
UrlChunks == {"postgres", "ql", "://", "h"}

LegacyPrefix == <<"postgres", "://">>

ModernPrefix == <<"postgres", "ql", "://">>

SqliteFile == <<"voting_system.db">>

SeqsUpTo(S, n) == UNION {[1..k -> S] : k \in 0..n}

\* str.startswith
StartsWith(s, pre) ==
    /\ Len(s) >= Len(pre)
    /\ SubSeq(s, 1, Len(pre)) = pre

\* Offsets (1-based) at which old occurs in s.
Occurrences(s, old) ==
    {i \in 1..(Len(s) - Len(old) + 1) : SubSeq(s, i, i + Len(old) - 1) = old}

\* str.replace(old, new, 1): the leftmost occurrence only.
ReplaceFirst(s, old, new) ==
    IF Occurrences(s, old) = {} THEN s
    ELSE LET i == CHOOSE j \in Occurrences(s, old) :
                      \A k \in Occurrences(s, old) : j <= k
         IN  SubSeq(s, 1, i - 1) \o new \o SubSeq(s, i + Len(old), Len(s))

\* str.replace(old, new): every non-overlapping occurrence, left to right.
RECURSIVE ReplaceAll(_, _, _)
ReplaceAll(s, old, new) ==
    IF Occurrences(s, old) = {} THEN s
    ELSE LET i == CHOOSE j \in Occurrences(s, old) :
                      \A k \in Occurrences(s, old) : j <= k
         IN  SubSeq(s, 1, i - 1) \o new
                 \o ReplaceAll(SubSeq(s, i + Len(old), Len(s)), old, new)

NormalizeUrlAll(url) ==
    IF StartsWith(url, LegacyPrefix)
    THEN ReplaceAll(url, LegacyPrefix, ModernPrefix)
    ELSE url

\* Lines 22-23.
NormalizeUrl(url) ==
    IF StartsWith(url, LegacyPrefix)
    THEN ReplaceFirst(url, LegacyPrefix, ModernPrefix)
    ELSE url

\* What one call of get_db did: the connect calls it made in order, the
\* lines it printed, the handle it returned (None when it raised) and the
\* exception it let through (None when it returned).
GetDbFallback(e, connectOk) ==
    IF e.RENDER = Absent /\ e.DATABASE_URL = Absent
    THEN [attempts |-> <<[backend |-> "sqlite", target |-> SqliteFile]>>,
          printed  |-> IF connectOk THEN <<>> ELSE <<"Database connection error">>,
          handle   |-> IF connectOk THEN "sqlite" ELSE None,
          raised   |-> IF connectOk THEN None ELSE "OperationalError"]
    ELSE IF e.DATABASE_URL = Absent
    THEN [attempts |-> <<[backend |-> "sqlite", target |-> SqliteFile]>>,
          printed  |-> <<"Database connection error">>,
          handle   |-> "sqlite",
          raised   |-> None]
    ELSE [attempts |-> <<[backend |-> "postgres",
                         target  |-> NormalizeUrl(e.DATABASE_URL[1])]>>,
          printed  |-> IF connectOk THEN <<>> ELSE <<"Database connection error">>,
          handle   |-> IF connectOk THEN "postgres" ELSE None,
          raised   |-> IF connectOk THEN None ELSE "OperationalError"]

\* Lines 10-28.  connectOk is whether the driver's connect call succeeds.
\* With RENDER set and DATABASE_URL unset, os.environ.get returns None and
\* None.startswith raises AttributeError before any connect call.
GetDb(e, connectOk) ==
    IF e.RENDER = Absent /\ e.DATABASE_URL = Absent
    THEN [attempts |-> <<[backend |-> "sqlite", target |-> SqliteFile]>>,
          printed  |-> IF connectOk THEN <<>> ELSE <<"Database connection error">>,
          handle   |-> IF connectOk THEN "sqlite" ELSE None,
          raised   |-> IF connectOk THEN None ELSE "OperationalError"]
    ELSE IF e.DATABASE_URL = Absent
    THEN [attempts |-> <<>>,
          printed  |-> <<"Database connection error">>,
          handle   |-> None,
          raised   |-> "AttributeError"]
    ELSE [attempts |-> <<[backend |-> "postgres",
                         target  |-> NormalizeUrl(e.DATABASE_URL[1])]>>,
          printed  |-> IF connectOk THEN <<>> ELSE <<"Database connection error">>,
          handle   |-> IF connectOk THEN "postgres" ELSE None,
          raised   |-> IF connectOk THEN None ELSE "OperationalError"]

\* Line 30-31.  The digest is kept symbolic: a value determined by the
\* plaintext and different from it.
hash_password(password) == <<"sha256", password>>


\* ------------------------------------------------------------- schema
\* The seven tables in the order init_db creates them (lines 38-125).
TableOrder ==
    <<"constituencies", "voters", "admins", "candidates", "elections",
      "votes", "audit_logs">>

Tables == {TableOrder[i] : i \in 1..Len(TableOrder)}

\* The schema with UNIQUE(voter_id, election_id) left out of votes.
UniqueKeyNoVotes(t) ==
    CASE t = "constituencies" -> {"name"}
      [] t = "voters"         -> {"email"}
      [] t = "admins"         -> {"username"}
      [] OTHER                -> {}

\* The schema with UNIQUE left out of admins.username.
UniqueKeyNoAdmins(t) ==
    CASE t = "constituencies" -> {"name"}
      [] t = "voters"         -> {"email"}
      [] t = "votes"          -> {"voter_id", "election_id"}
      [] OTHER                -> {}

\* The UNIQUE constraint of each table besides its primary key: lines 42,
\* 53, 65 and 106.  {} stands for no such constraint.
UniqueKey(t) ==
    CASE t = "constituencies" -> {"name"}
      [] t = "voters"         -> {"email"}
      [] t = "admins"         -> {"username"}
      [] t = "votes"          -> {"voter_id", "election_id"}
      [] OTHER                -> {}

\* The FOREIGN KEY clauses of votes, lines 107-109: column -> table whose id
\* it references.
ForeignKeys(t) ==
    IF t = "votes"
    THEN {<<"voter_id", "voters">>, <<"election_id", "elections">>,
          <<"candidate_id", "candidates">>}
    ELSE {}

\* Lines 128-136, in the order of the source.
ap_constituencies ==
    <<"Araku", "Srikakulam", "Vizianagaram", "Visakhapatnam",
      "Anakapalli", "Kakinada", "Amalapuram", "Rajahmundry",
      "Narasapuram", "Eluru", "Machilipatnam", "Vijayawada",
      "Guntur", "Narasaraopet", "Bapatla", "Ongole",
      "Nandyal", "Kurnool", "Anantapur", "Hindupur",
      "Kadapa", "Nellore", "Tirupati", "Rajampet",
      "Chittoor">>

SeededNames == {ap_constituencies[i] : i \in 1..Len(ap_constituencies)}

\* ------------------------------------------------- ORDER BY name (l. 164)
\* The letters of every name the model stores, so that the comparison of
\* two names is computed letter by letter.
Spell(name) ==
    CASE name = "Araku"         -> <<"A","r","a","k","u">>
      [] name = "Srikakulam"    -> <<"S","r","i","k","a","k","u","l","a","m">>
      [] name = "Vizianagaram"  -> <<"V","i","z","i","a","n","a","g","a","r","a","m">>
      [] name = "Visakhapatnam" -> <<"V","i","s","a","k","h","a","p","a","t","n","a","m">>
      [] name = "Anakapalli"    -> <<"A","n","a","k","a","p","a","l","l","i">>
      [] name = "Kakinada"      -> <<"K","a","k","i","n","a","d","a">>
      [] name = "Amalapuram"    -> <<"A","m","a","l","a","p","u","r","a","m">>
      [] name = "Rajahmundry"   -> <<"R","a","j","a","h","m","u","n","d","r","y">>
      [] name = "Narasapuram"   -> <<"N","a","r","a","s","a","p","u","r","a","m">>
      [] name = "Eluru"         -> <<"E","l","u","r","u">>
      [] name = "Machilipatnam" -> <<"M","a","c","h","i","l","i","p","a","t","n","a","m">>
      [] name = "Vijayawada"    -> <<"V","i","j","a","y","a","w","a","d","a">>
      [] name = "Guntur"        -> <<"G","u","n","t","u","r">>
      [] name = "Narasaraopet"  -> <<"N","a","r","a","s","a","r","a","o","p","e","t">>
      [] name = "Bapatla"       -> <<"B","a","p","a","t","l","a">>
      [] name = "Ongole"        -> <<"O","n","g","o","l","e">>
      [] name = "Nandyal"       -> <<"N","a","n","d","y","a","l">>
      [] name = "Kurnool"       -> <<"K","u","r","n","o","o","l">>
      [] name = "Anantapur"     -> <<"A","n","a","n","t","a","p","u","r">>
      [] name = "Hindupur"      -> <<"H","i","n","d","u","p","u","r">>
      [] name = "Kadapa"        -> <<"K","a","d","a","p","a">>
      [] name = "Nellore"       -> <<"N","e","l","l","o","r","e">>
      [] name = "Tirupati"      -> <<"T","i","r","u","p","a","t","i">>
      [] name = "Rajampet"      -> <<"R","a","j","a","m","p","e","t">>
      [] name = "Chittoor"      -> <<"C","h","i","t","t","o","o","r">>
      [] name = "Adoni"         -> <<"A","d","o","n","i">>

\* Code points: capitals before small letters, each group alphabetical.
Alphabet ==
    <<"A","B","C","D","E","F","G","H","I","J","K","L","M",
      "N","O","P","Q","R","S","T","U","V","W","X","Y","Z",
      "a","b","c","d","e","f","g","h","i","j","k","l","m",
      "n","o","p","q","r","s","t","u","v","w","x","y","z">>

Ord == [c \in {Alphabet[i] : i \in 1..Len(Alphabet)} |->
           CHOOSE i \in 1..Len(Alphabet) : Alphabet[i] = c]

RECURSIVE LexLess(_, _)
LexLess(a, b) ==
    IF b = <<>> THEN FALSE
    ELSE IF a = <<>> THEN TRUE
    ELSE IF Ord[Head(a)] # Ord[Head(b)] THEN Ord[Head(a)] < Ord[Head(b)]
    ELSE LexLess(Tail(a), Tail(b))

NameLess(x, y) == LexLess(Spell(x), Spell(y))

RECURSIVE InsertSorted(_, _)
InsertSorted(sorted, x) ==
    IF sorted = <<>> THEN <<x>>
    ELSE IF NameLess(x, Head(sorted)) THEN <<x>> \o sorted
    ELSE <<Head(sorted)>> \o InsertSorted(Tail(sorted), x)

RECURSIVE SortNames(_)
SortNames(names) ==
    IF names = <<>> THEN <<>>
    ELSE InsertSorted(SortNames(Tail(names)), Head(names))

\* SELECT name FROM constituencies ORDER BY name, then line 166.
SelectNames(crows) == SortNames([i \in 1..Len(crows) |-> crows[i].name])


\* -------------------------------------------------------------- state
VARIABLES
    env,            \* os.environ: RENDER and DATABASE_URL (Absent or a value)
    tables,         \* the tables that exist in the database (committed)
    rows,           \* table -> its committed rows, in insertion order
    serial,         \* table -> last value its id sequence gave out (hosted)
    pc,             \* process -> the statement of init_db it issues next
    pend,           \* process -> what its open transaction has not committed:
                    \* tables created, and per table the row writes, where
                    \* [at |-> 0, row |-> r] is a new row r and [at |-> i,
                    \* row |-> r] a new image r of committed row i
    existing_admin, \* process -> the rows fetched at line 149: <<>> or <<row>>
    run,            \* process -> bookkeeping of its current init_db call
    outcome,        \* process -> how its last call into the module ended
    dangling,       \* connections the module's calls opened and left open
    count,          \* calls and statements so far, by kind
    limit,          \* how many of each kind the behaviour may make
    lastExt,        \* the last statement of a caller outside the module
    lastCall        \* what the last direct call of get_db did

vars ==
    <<env, tables, rows, serial, pc, pend, existing_admin, run, outcome,
      dangling, count, limit, lastExt, lastCall>>

dbVars == <<tables, rows, serial>>

procVars == <<pc, pend, existing_admin, run, outcome, dangling>>

EmptyRows == [t \in Tables |-> <<>>]

NoPend == [tables |-> {}, rows |-> EmptyRows]

NoRun == [adminsBefore |-> 0, created |-> {}]

NoOutcome == [op |-> None, status |-> None, error |-> None, value |-> <<>>,
              adminsBefore |-> 0, kept |-> [tables |-> {}, constituencies |-> 0,
                                            admins |-> 0]]

NoExt == [stmt |-> None, table |-> None, row |-> <<>>, result |-> None]

\* The engine behind the handle get_db returns in this environment.
Backend == GetDb(env, TRUE).handle

\* ------------------------------------------------------ storage engine
\* sqlite3 binds '?' (qmark), psycopg2 binds '%s' (pyformat).
ParamStyle(backend) == IF backend = "sqlite" THEN "qmark" ELSE "pyformat"

\* The placeholders of the statements at lines 140, 146 and 153 are '%s'.
\* An engine that does not know the placeholder rejects the statement when
\* it prepares it.
StatementPrepares(backend) == ParamStyle(backend) = "pyformat"

\* PostgreSQL runs DDL inside the open transaction.  The sqlite3 module
\* opens a transaction only in front of INSERT/UPDATE/DELETE/REPLACE, so
\* each CREATE TABLE of init_db is durable as soon as it has run.
DdlIsTransactional(backend) == backend = "postgres"

\* SQLite enforces FOREIGN KEY clauses only under PRAGMA foreign_keys=ON,
\* which the module never issues.
EnforcesForeignKeys(backend) == backend = "postgres"

\* SERIAL is a sequence-backed integer in PostgreSQL.  In SQLite the column
\* 'id SERIAL PRIMARY KEY' is no rowid alias and is stored as NULL.
IdFor(backend, t) == IF backend = "postgres" THEN serial[t] + 1 ELSE NULL

KeyOf(t, row) == [c \in UniqueKey(t) |-> row[c]]

Conflicts(t, row, existing) ==
    /\ UniqueKey(t) # {}
    /\ \E i \in 1..Len(existing) : KeyOf(t, existing[i]) = KeyOf(t, row)

\* The rows of a sequence of writes.
Written(writes) == [i \in 1..Len(writes) |-> writes[i].row]

\* The new rows among a sequence of writes, in order.
NewRows(writes) == Written(SelectSeq(writes, LAMBDA w : w.at = 0))

\* A table's rows once the writes are applied: new images in place, new
\* rows at the end.
Apply(committed, writes) ==
    [i \in 1..Len(committed) |->
        IF \E k \in 1..Len(writes) : writes[k].at = i
        THEN writes[CHOOSE k \in 1..Len(writes) :
                       /\ writes[k].at = i
                       /\ \A m \in 1..Len(writes) : writes[m].at = i => m <= k].row
        ELSE committed[i]]
    \o NewRows(writes)

\* What the statements of process p see: committed rows and its own writes.
Visible(p, t) == Apply(rows[t], pend[p].rows[t])

\* Another open transaction holds an uncommitted row with the same unique
\* key: the insert waits for that transaction to end.
Blocked(p, t, row) ==
    \E q \in Procs \ {p} : Conflicts(t, row, Written(pend[q].rows[t]))

\* INSERT ... ON CONFLICT (key) DO UPDATE SET <the other columns>: a row
\* with the same key takes the values of the statement and keeps its id.
OnConflictDoUpdate(t, seen, row) ==
    IF Conflicts(t, row, seen)
    THEN LET i == CHOOSE k \in 1..Len(seen) : KeyOf(t, seen[k]) = KeyOf(t, row)
         IN  <<[at |-> i, row |-> [row EXCEPT !.id = seen[i].id]]>>
    ELSE <<[at |-> 0, row |-> row]>>

\* INSERT ... ON CONFLICT (key) DO NOTHING (line 140): the writes the
\* statement makes given the rows it sees.
OnConflictDoNothing(t, seen, row) ==
    IF Conflicts(t, row, seen) THEN <<>> ELSE <<[at |-> 0, row |-> row]>>

RefsHold(t, row) ==
    \A fk \in ForeignKeys(t) :
        \E i \in 1..Len(rows[fk[2]]) : rows[fk[2]][i].id = row[fk[1]]

\* Tables 1..k of the creation order.
FirstTables(k) == {TableOrder[i] : i \in 1..k}

\* The loop of lines 138-142 from statement i on: each statement draws an
\* id from the sequence, also when it then finds the name taken.  seen is
\* the rows visible to the transaction, base the value of the sequence
\* before the loop.
RECURSIVE SeedFrom(_, _, _)
SeedFrom(i, seen, base) ==
    IF i > Len(ap_constituencies) THEN <<>>
    ELSE LET row == [id    |-> IF Backend = "postgres" THEN base + i ELSE NULL,
                     name  |-> ap_constituencies[i],
                     state |-> "Andhra Pradesh"]
             w == OnConflictDoNothing("constituencies", seen, row)
         IN  w \o SeedFrom(i + 1, Apply(seen, w), base)

\* ---------------------------------------------------------------- init
NoCall == [attempts |-> <<>>, printed |-> <<>>, handle |-> None, raised |-> None]

NoCount == [init |-> 0, list |-> 0, ext |-> 0, faults |-> 0, calls |-> 0]

\* Every environment with a connection string of at most MaxUrlLen chunks.
Environments ==
    [RENDER : {Absent, Set(""), Set("true")},
     DATABASE_URL : {Absent} \cup {Set(u) : u \in SeqsUpTo(UrlChunks, MaxUrlLen)}]

\* One environment per branch of get_db: the local store, the hosted
\* service behind a legacy URL, and the hosted marker without a URL.
DeployedEnvironments ==
    {[RENDER |-> Absent, DATABASE_URL |-> Absent],
     [RENDER |-> Set("true"), DATABASE_URL |-> Set(<<"postgres", "://", "h">>)],
     [RENDER |-> Set("true"), DATABASE_URL |-> Absent]}

\* An empty database and no call made yet.
InitWith(envs, lim) ==
    /\ env \in envs
    /\ limit = lim
    /\ tables = {}
    /\ rows = EmptyRows
    /\ serial = [t \in Tables |-> 0]
    /\ pc = [p \in Procs |-> "idle"]
    /\ pend = [p \in Procs |-> NoPend]
    /\ existing_admin = [p \in Procs |-> <<>>]
    /\ run = [p \in Procs |-> NoRun]
    /\ outcome = [p \in Procs |-> NoOutcome]
    /\ dangling = 0
    /\ count = NoCount
    /\ lastExt = NoExt
    /\ lastCall = NoCall

\* Whether the environment may fail the next thing asked of it.
MayFail == IF count.faults < limit.faults THEN BOOLEAN ELSE {FALSE}

\* ------------------------------------------------------------- get_db
\* A caller asks get_db for a handle (the handle is the caller's to close).
DirectGetDb ==
    /\ count.calls < 1
    /\ \E ok \in BOOLEAN :
          lastCall' = GetDb(env, ok)
    /\ count' = [count EXCEPT !.calls = @ + 1]
    /\ UNCHANGED <<env, limit, dbVars, procVars, lastExt>>

\* ------------------------------------------------------------ init_db
\* The call ends: the with block of line 35 leaves through __exit__, which
\* commits or rolls back and does not close the connection, so the handle
\* stays open until the interpreter finalizes it.
Finish(p, status, error, keptTables, keptRows) ==
    /\ pc' = [pc EXCEPT ![p] = "idle"]
    /\ pend' = [pend EXCEPT ![p] = NoPend]
    /\ existing_admin' = [existing_admin EXCEPT ![p] = <<>>]
    /\ run' = [run EXCEPT ![p] = NoRun]
    /\ outcome' = [outcome EXCEPT ![p] =
          [op |-> "init_db", status |-> status, error |-> error,
           value |-> <<>>, adminsBefore |-> run[p].adminsBefore,
           kept |-> [tables |-> keptTables,
                     constituencies |-> keptRows[1],
                     admins |-> keptRows[2]]]]
    /\ dangling' = dangling + 1

\* An exception leaves the with block: the open transaction is rolled
\* back, what was already durable stays.
Raise(p, error, keptTables) ==
    Finish(p, "raised", error, keptTables, <<0, 0>>)

Step(p, next) ==
    /\ pc' = [pc EXCEPT ![p] = next]
    /\ UNCHANGED <<outcome, dangling>>

\* Line 35: get_db().
InitStart(p) ==
    /\ pc[p] = "idle"
    /\ count.init < limit.init
    /\ \E failed \in MayFail :
          LET r == GetDb(env, ~failed)
              fault == IF failed /\ r.attempts # <<>> THEN 1 ELSE 0
          IN  /\ count' = [count EXCEPT !.init = @ + 1, !.faults = @ + fault]
              /\ IF r.raised # None
                 THEN /\ outcome' = [outcome EXCEPT ![p] =
                            [NoOutcome EXCEPT !.op = "init_db",
                                              !.status = "raised",
                                              !.error = r.raised,
                                              !.adminsBefore = Len(rows["admins"])]]
                      /\ UNCHANGED <<pc, run, dangling>>
                 ELSE /\ pc' = [pc EXCEPT ![p] = "create"]
                      /\ run' = [run EXCEPT ![p] =
                            [adminsBefore |-> Len(rows["admins"]), created |-> {}]]
                      /\ UNCHANGED <<outcome, dangling>>
    /\ UNCHANGED <<env, limit, dbVars, pend, existing_admin, lastExt, lastCall>>

\* Lines 39-125: the seven CREATE TABLE IF NOT EXISTS, of which the first k
\* run (k = 7: all of them; k < 7: statement k+1 fails).
InitCreate(p) ==
    /\ pc[p] = "create"
    /\ \A q \in Procs \ {p} : pend[q].tables = {}
    /\ \E k \in 0..Len(TableOrder) :
          LET new == FirstTables(k) \ tables
              failed == k < Len(TableOrder)
          IN  /\ failed \in MayFail
              /\ count' = [count EXCEPT !.faults = @ + (IF failed THEN 1 ELSE 0)]
              /\ IF DdlIsTransactional(Backend)
                 THEN /\ UNCHANGED tables
                      /\ IF failed
                         THEN Raise(p, "OperationalError", {})
                         ELSE /\ pend' = [pend EXCEPT ![p].tables = new]
                              /\ Step(p, "seed")
                              /\ UNCHANGED <<existing_admin, run>>
                 ELSE /\ tables' = tables \cup new
                      /\ IF failed
                         THEN Raise(p, "OperationalError", new)
                         ELSE /\ run' = [run EXCEPT ![p].created = new]
                              /\ Step(p, "seed")
                              /\ UNCHANGED <<pend, existing_admin>>
    /\ UNCHANGED <<env, limit, rows, serial, lastExt, lastCall>>

\* Lines 138-142: the 25 INSERT ... ON CONFLICT (name) DO NOTHING.
InitSeed(p) ==
    /\ pc[p] = "seed"
    /\ IF ~StatementPrepares(Backend)
       THEN /\ Raise(p, "OperationalError", run[p].created)
            /\ UNCHANGED <<serial, count>>
       ELSE /\ \A i \in 1..Len(ap_constituencies) :
                  ~Blocked(p, "constituencies", [name |-> ap_constituencies[i]])
            /\ \E failed \in MayFail :
                  /\ count' = [count EXCEPT !.faults = @ + (IF failed THEN 1 ELSE 0)]
                  /\ IF failed
                     THEN /\ Raise(p, "OperationalError", run[p].created)
                          /\ UNCHANGED serial
                     ELSE /\ pend' = [pend EXCEPT ![p].rows["constituencies"] =
                                @ \o SeedFrom(1, Visible(p, "constituencies"),
                                              serial["constituencies"])]
                          /\ serial' = [serial EXCEPT !["constituencies"] =
                                IF Backend = "postgres"
                                THEN @ + Len(ap_constituencies) ELSE @]
                          /\ Step(p, "select")
                          /\ UNCHANGED <<existing_admin, run>>
    /\ UNCHANGED <<env, limit, tables, rows, lastExt, lastCall>>

\* SELECT * FROM admins WHERE username = 'admin', and fetchone.
SelectAdmin(arows) ==
    IF \E i \in 1..Len(arows) : arows[i].username = "admin"
    THEN <<arows[CHOOSE i \in 1..Len(arows) : arows[i].username = "admin"]>>
    ELSE <<>>

\* Lines 145-151.
InitSelect(p) ==
    /\ pc[p] = "select"
    /\ \E failed \in MayFail :
          /\ count' = [count EXCEPT !.faults = @ + (IF failed THEN 1 ELSE 0)]
          /\ IF failed
             THEN Raise(p, "OperationalError", run[p].created)
             ELSE LET found == SelectAdmin(Visible(p, "admins"))
                  IN  /\ existing_admin' = [existing_admin EXCEPT ![p] = found]
                      /\ Step(p, IF found = <<>> THEN "insert" ELSE "commit")
                      /\ UNCHANGED <<pend, run>>
    /\ UNCHANGED <<env, limit, dbVars, lastExt, lastCall>>

\* Lines 152-156.
InitInsert(p) ==
    /\ pc[p] = "insert"
    /\ LET row == [id       |-> IdFor(Backend, "admins"),
                   username |-> "admin",
                   password |-> hash_password("admin123")]
       IN  /\ ~Blocked(p, "admins", row)
           /\ \E failed \in MayFail :
                 /\ count' = [count EXCEPT !.faults = @ + (IF failed THEN 1 ELSE 0)]
                 /\ IF failed
                    THEN /\ Raise(p, "OperationalError", run[p].created)
                         /\ UNCHANGED serial
                    ELSE /\ serial' = [serial EXCEPT !["admins"] =
                               IF Backend = "postgres" THEN @ + 1 ELSE @]
                         /\ IF Conflicts("admins", row, Visible(p, "admins"))
                            THEN Raise(p, "UniqueViolation", run[p].created)
                            ELSE /\ pend' = [pend EXCEPT ![p].rows["admins"] =
                                       Append(@, [at |-> 0, row |-> row])]
                                 /\ Step(p, "commit")
                                 /\ UNCHANGED <<existing_admin, run>>
    /\ UNCHANGED <<env, limit, tables, rows, lastExt, lastCall>>

\* Line 158, then __exit__ of the with block.
InitCommit(p) ==
    /\ pc[p] = "commit"
    /\ \E failed \in MayFail :
          /\ count' = [count EXCEPT !.faults = @ + (IF failed THEN 1 ELSE 0)]
          /\ IF failed
             THEN /\ Raise(p, "OperationalError", run[p].created)
                  /\ UNCHANGED <<tables, rows>>
             ELSE /\ tables' = tables \cup pend[p].tables
                  /\ rows' = [t \in Tables |-> Apply(rows[t], pend[p].rows[t])]
                  /\ Finish(p, "returned", None,
                            run[p].created \cup pend[p].tables,
                            <<Len(NewRows(pend[p].rows["constituencies"])),
                              Len(NewRows(pend[p].rows["admins"]))>>)
    /\ UNCHANGED <<env, limit, serial, lastExt, lastCall>>


\* -------------------------------------------------- get_constituencies
\* Lines 160-166.  The SELECT reads committed rows; a missing table makes it
\* raise.  The with block ends as in init_db.
GetConstituencies(p) ==
    /\ pc[p] = "idle"
    /\ count.list < limit.list
    /\ \E failed \in MayFail :
          LET r == GetDb(env, ~failed)
              fault == IF failed /\ r.attempts # <<>> THEN 1 ELSE 0
              base == [NoOutcome EXCEPT !.op = "get_constituencies"]
          IN  /\ count' = [count EXCEPT !.list = @ + 1, !.faults = @ + fault]
              /\ IF r.raised # None
                 THEN /\ outcome' = [outcome EXCEPT ![p] =
                            [base EXCEPT !.status = "raised", !.error = r.raised]]
                      /\ UNCHANGED dangling
                 ELSE /\ dangling' = dangling + 1
                      /\ IF "constituencies" \in tables
                         THEN outcome' = [outcome EXCEPT ![p] =
                                 [base EXCEPT !.status = "returned",
                                              !.value = SelectNames(rows["constituencies"])]]
                         ELSE outcome' = [outcome EXCEPT ![p] =
                                 [base EXCEPT !.status = "raised",
                                              !.error = "UndefinedTable"]]
    /\ UNCHANGED <<env, limit, dbVars, pc, pend, existing_admin, run, lastExt, lastCall>>

\* The interpreter finalizes the connection objects nothing refers to any
\* more, which closes them.  When it does so is up to the interpreter.
Finalize ==
    /\ dangling > 0
    /\ dangling' = 0
    /\ UNCHANGED <<env, limit, dbVars, pc, pend, existing_admin, run, outcome, count,
                   lastExt, lastCall>>

\* ------------------------------------------- callers outside the module
\* The column values a caller may supply, per table.
CallerRows(t) ==
    CASE t = "constituencies" ->
            [name : {"Araku", "Adoni"}, state : {"Andhra Pradesh", "Telangana"}]
      [] t = "admins" ->
            [username : {"admin", "root"},
             password : {hash_password("admin123"), hash_password("s3cret")}]
      [] t = "voters"     -> [email : {"a@example.org"}]
      [] t = "candidates" -> [name : {"candidate"}]
      [] t = "elections"  -> [title : {"election"}]
      [] t = "audit_logs" -> [action : {"login"}]
      [] t = "votes" ->
            [voter_id : 1..2, election_id : 1..2, candidate_id : {1}]

WithId(v, id) == [c \in DOMAIN v \cup {"id"} |-> IF c = "id" THEN id ELSE v[c]]

\* INSERT INTO t (...) VALUES (...) by a caller, in a transaction of its own.
\* The constraints the schema of init_db declares decide it.
CallerInsert(t, v) ==
    /\ count.ext < limit.ext
    /\ Backend # None
    /\ t \in tables
    /\ LET row == WithId(v, IdFor(Backend, t))
       IN  /\ ~Blocked(None, t, row)
           /\ serial' = [serial EXCEPT ![t] =
                 IF Backend = "postgres" THEN @ + 1 ELSE @]
           /\ IF Conflicts(t, row, rows[t])
              THEN /\ lastExt' = [stmt |-> "insert", table |-> t, row |-> v,
                                  result |-> "UniqueViolation"]
                   /\ UNCHANGED rows
              ELSE IF EnforcesForeignKeys(Backend) /\ ~RefsHold(t, row)
              THEN /\ lastExt' = [stmt |-> "insert", table |-> t, row |-> v,
                                  result |-> "ForeignKeyViolation"]
                   /\ UNCHANGED rows
              ELSE /\ lastExt' = [stmt |-> "insert", table |-> t, row |-> v,
                                  result |-> "ok"]
                   /\ rows' = [rows EXCEPT ![t] = Append(@, row)]
    /\ count' = [count EXCEPT !.ext = @ + 1]
    /\ UNCHANGED <<env, limit, tables, procVars, lastCall>>

Without(s, i) == SubSeq(s, 1, i - 1) \o SubSeq(s, i + 1, Len(s))

\* The column a caller's UPDATE selects the row by.
WhereColumn(t) == IF t = "admins" THEN "username" ELSE "name"

\* UPDATE t SET <columns of v> WHERE <column> = key by a caller: the
\* application renames an administrator or changes a password, or corrects
\* a constituency.
CallerUpdate(t, key, v) ==
    /\ count.ext < limit.ext
    /\ Backend # None
    /\ t \in tables
    /\ \E i \in 1..Len(rows[t]) :
          /\ rows[t][i][WhereColumn(t)] = key
          /\ LET row == WithId(v, rows[t][i].id)
             IN  /\ row # rows[t][i]
                 /\ ~Blocked(None, t, row)
                 /\ IF Conflicts(t, row, Without(rows[t], i))
                    THEN /\ lastExt' = [stmt |-> "update", table |-> t, row |-> v,
                                        result |-> "UniqueViolation"]
                         /\ UNCHANGED rows
                    ELSE /\ lastExt' = [stmt |-> "update", table |-> t, row |-> v,
                                        result |-> "ok"]
                         /\ rows' = [rows EXCEPT ![t][i] = row]
    /\ count' = [count EXCEPT !.ext = @ + 1]
    /\ UNCHANGED <<env, limit, tables, serial, procVars, lastCall>>

\* ---------------------------------------------------------------- next
InitDbStep(p) ==
    \/ InitStart(p)
    \/ InitCreate(p)
    \/ InitSeed(p)
    \/ InitSelect(p)
    \/ InitInsert(p)
    \/ InitCommit(p)

\* The module on its own: processes that start up and list constituencies,
\* nobody else writing.
Init ==
    InitWith(DeployedEnvironments,
             [init |-> MaxInit, list |-> MaxList, ext |-> 0, faults |-> MaxFaults])

Next ==
    \/ \E p \in Procs : InitStart(p)
    \/ \E p \in Procs : InitCreate(p)
    \/ \E p \in Procs : InitSeed(p)
    \/ \E p \in Procs : InitSelect(p)
    \/ \E p \in Procs : InitInsert(p)
    \/ \E p \in Procs : InitCommit(p)
    \/ \E p \in Procs : GetConstituencies(p)
    \/ Finalize

Spec == Init /\ [][Next]_vars

\* Processes that start up concurrently while the application manages its
\* administrators.
InitRace ==
    InitWith(DeployedEnvironments,
             [init |-> MaxInit, list |-> 0, ext |-> MaxRaceExt, faults |-> 0])

NextRace ==
    \/ \E p \in Procs : InitStart(p)
    \/ \E p \in Procs : InitCreate(p)
    \/ \E p \in Procs : InitSeed(p)
    \/ \E p \in Procs : InitSelect(p)
    \/ \E p \in Procs : InitInsert(p)
    \/ \E p \in Procs : InitCommit(p)
    \/ \E v \in CallerRows("admins") : CallerInsert("admins", v)
    \/ \E k \in {"admin", "root"} : \E v \in CallerRows("admins") :
          CallerUpdate("admins", k, v)

SpecRace == InitRace /\ [][NextRace]_vars

\* One process starts up now and then while the application writes to
\* every table.
InitFrame ==
    InitWith(DeployedEnvironments,
             [init |-> MaxInit, list |-> 0, ext |-> MaxExt, faults |-> 0])

NextFrame ==
    \/ InitStart("p1")
    \/ InitCreate("p1")
    \/ InitSeed("p1")
    \/ InitSelect("p1")
    \/ InitInsert("p1")
    \/ InitCommit("p1")
    \/ \E t \in Tables : \E v \in CallerRows(t) : CallerInsert(t, v)
    \/ \E t \in {"admins", "constituencies"} :
          \E v \in CallerRows(t) : \E w \in CallerRows(t) :
             CallerUpdate(t, v[WhereColumn(t)], w)

SpecFrame == InitFrame /\ [][NextFrame]_vars

\* One process starts up and the application registers voters, elections
\* and candidates and casts votes.
VoteTables == {"voters", "elections", "candidates", "votes"}

InitVotes ==
    InitWith(DeployedEnvironments,
             [init |-> 1, list |-> 0, ext |-> MaxVoteExt, faults |-> 0])

NextVotes ==
    \/ InitStart("p1")
    \/ InitCreate("p1")
    \/ InitSeed("p1")
    \/ InitSelect("p1")
    \/ InitInsert("p1")
    \/ InitCommit("p1")
    \/ \E t \in VoteTables : \E v \in CallerRows(t) : CallerInsert(t, v)

SpecVotes == InitVotes /\ [][NextVotes]_vars

\* get_db alone, over every environment.
InitEnv ==
    InitWith(Environments, [init |-> 0, list |-> 0, ext |-> 0, faults |-> 0])

NextEnv == DirectGetDb

SpecEnv == InitEnv /\ [][NextEnv]_vars

\* ============================================================== claims
AllIdle == \A p \in Procs : pc[p] = "idle"

LocalSelected == env.RENDER = Absent /\ env.DATABASE_URL = Absent

\* --------------------------------------------------------------- C7
\* C7, as stated: get_db opens the local store voting_system.db if and only
\* if RENDER and DATABASE_URL are both absent; in every other case it
\* connects to the hosted service with DATABASE_URL, the leading legacy
\* prefix rewritten and any other URL unchanged.
C7_AsStated ==
    count.calls = 1 =>
        IF LocalSelected
        THEN lastCall.attempts = <<[backend |-> "sqlite", target |-> SqliteFile]>>
        ELSE /\ env.DATABASE_URL # Absent
             /\ LET url == env.DATABASE_URL[1]
                    want == IF StartsWith(url, LegacyPrefix)
                            THEN ModernPrefix
                                     \o SubSeq(url, Len(LegacyPrefix) + 1, Len(url))
                            ELSE url
                IN  lastCall.attempts = <<[backend |-> "postgres", target |-> want]>>

\* C7, amended: the same whenever DATABASE_URL is present or both variables
\* are absent; with RENDER set and DATABASE_URL absent get_db connects to
\* nothing and raises AttributeError.
C7_BackendSelection ==
    count.calls = 1 =>
        IF LocalSelected
        THEN lastCall.attempts = <<[backend |-> "sqlite", target |-> SqliteFile]>>
        ELSE IF env.DATABASE_URL = Absent
        THEN /\ lastCall.attempts = <<>>
             /\ lastCall.raised = "AttributeError"
        ELSE LET url == env.DATABASE_URL[1]
                 want == IF StartsWith(url, LegacyPrefix)
                         THEN ModernPrefix
                                  \o SubSeq(url, Len(LegacyPrefix) + 1, Len(url))
                         ELSE url
             IN  lastCall.attempts = <<[backend |-> "postgres", target |-> want]>>

\* get_db connected with a URL that holds the legacy prefix at its start
\* and once more further on.
C7_Witness ==
    /\ count.calls = 1
    /\ env.DATABASE_URL # Absent
    /\ StartsWith(env.DATABASE_URL[1], LegacyPrefix)
    /\ Cardinality(Occurrences(env.DATABASE_URL[1], LegacyPrefix)) = 2
    /\ lastCall.handle = "postgres"

\* --------------------------------------------------------------- C8
\* C8, as stated: every failure inside get_db is logged and re-raised after
\* exactly one connection attempt, with no retry and no fallback, also when
\* RENDER is set and DATABASE_URL is missing.
C8_AsStated ==
    (count.calls = 1 /\ lastCall.raised # None) =>
        /\ Len(lastCall.printed) = 1
        /\ Len(lastCall.attempts) = 1
        /\ lastCall.handle = None

\* C8, amended: every failure inside get_db is logged once and re-raised
\* after at most one connection attempt (none when DATABASE_URL is missing
\* on the hosted branch, one otherwise); no call connects twice or connects
\* to the backend that was not selected; with RENDER set and DATABASE_URL
\* missing the call raises and returns no handle.
C8_FailurePropagates ==
    count.calls = 1 =>
        /\ Len(lastCall.attempts) <= 1
        /\ \A i \in 1..Len(lastCall.attempts) :
              lastCall.attempts[i].backend = "sqlite" <=> LocalSelected
        /\ lastCall.raised # None =>
              /\ Len(lastCall.printed) = 1
              /\ lastCall.handle = None
              /\ lastCall.attempts = <<>> <=>
                    (env.DATABASE_URL = Absent /\ env.RENDER # Absent)
        /\ (env.DATABASE_URL = Absent /\ env.RENDER # Absent) =>
              /\ lastCall.raised # None
              /\ lastCall.handle = None

\* get_db was called with RENDER set and no DATABASE_URL and raised.
C8_Witness ==
    /\ count.calls = 1
    /\ env.RENDER # Absent
    /\ env.DATABASE_URL = Absent
    /\ lastCall.raised = "AttributeError"

\* --------------------------------------------------------------- C1
\* C1: once init_db has been run N >= 1 times on a database that was empty,
\* with a working connection and nobody else writing, the database holds the
\* seven tables, 25 constituency rows, 1 admin row and no other row,
\* whatever N is.
C1_Idempotent ==
    (Backend # None /\ count.faults = 0 /\ count.ext = 0
        /\ count.init >= 1 /\ AllIdle) =>
        /\ tables = Tables
        /\ Len(rows["constituencies"]) = 25
        /\ Len(rows["admins"]) = 1
        /\ \A t \in Tables \ {"constituencies", "admins"} : rows[t] = <<>>

\* --------------------------------------------------------------- C3
\* C3: a call of get_constituencies made after init_db has run one or more
\* times, with a working connection and nobody else writing, returns the 25
\* seeded names, each once, in ascending order.
C3_ListsSeededNames ==
    [][\A p \in Procs :
          (/\ GetConstituencies(p)
           /\ Backend # None /\ count'.faults = 0 /\ count.ext = 0
           /\ count.init >= 1 /\ AllIdle)
          => /\ outcome'[p].status = "returned"
             /\ LET names == outcome'[p].value
                IN  /\ Len(names) = Len(ap_constituencies)
                    /\ {names[i] : i \in 1..Len(names)} = SeededNames
                    /\ \A i \in 1..Len(names) : \A j \in 1..Len(names) :
                          i < j => NameLess(names[i], names[j])]_vars

\* --------------------------------------------------------------- C4
\* C4: a finished init_db call has added no admin row if the admins table
\* held any row when it started, and exactly one if the table was empty.
C4_AdminOnlyIfNone ==
    \A p \in Procs :
        (outcome[p].op = "init_db" /\ Backend # None) =>
            /\ outcome[p].adminsBefore > 0 => outcome[p].kept.admins = 0
            /\ outcome[p].adminsBefore = 0 => outcome[p].kept.admins = 1

\* --------------------------------------------------------------- C5
\* C5: an init_db call that raised has left nothing in the database (no
\* table, no row); one that returned has left the seven tables, the 25
\* names and the default administrator in it.
C5_AllOrNothing ==
    \A p \in Procs :
        outcome[p].op = "init_db" =>
            /\ outcome[p].status = "raised" =>
                  outcome[p].kept =
                      [tables |-> {}, constituencies |-> 0, admins |-> 0]
            /\ outcome[p].status = "returned" =>
                  /\ tables = Tables
                  /\ SeededNames \subseteq
                        {rows["constituencies"][i].name :
                            i \in 1..Len(rows["constituencies"])}
                  /\ \E i \in 1..Len(rows["admins"]) :
                        rows["admins"][i].username = "admin"

\* --------------------------------------------------------------- C9
\* C9: whenever no call of init_db or get_constituencies is running, no
\* connection opened by these operations is still open.
C9_ConnectionsReleased == AllIdle => dangling = 0

\* --------------------------------------------------------------- C2
\* C2: the votes table never holds two rows with the same (voter_id,
\* election_id); an insert of a vote whose pair is already there fails with
\* a uniqueness violation and leaves the table as it was; an insert whose
\* pair is new (same voter, other election included) adds the row, provided
\* the rows it refers to exist where the engine enforces the references.
C2_OneVotePerElection ==
    /\ [](\A i \in 1..Len(rows["votes"]) : \A j \in 1..Len(rows["votes"]) :
            (/\ rows["votes"][i].voter_id = rows["votes"][j].voter_id
             /\ rows["votes"][i].election_id = rows["votes"][j].election_id)
            => i = j)
    /\ [][\A v \in CallerRows("votes") :
            CallerInsert("votes", v) =>
                IF \E i \in 1..Len(rows["votes"]) :
                      /\ rows["votes"][i].voter_id = v.voter_id
                      /\ rows["votes"][i].election_id = v.election_id
                THEN /\ lastExt'.result = "UniqueViolation"
                     /\ rows' = rows
                ELSE (\/ Backend = "sqlite"
                      \/ /\ \E i \in 1..Len(rows["voters"]) :
                               rows["voters"][i].id = v.voter_id
                         /\ \E i \in 1..Len(rows["elections"]) :
                               rows["elections"][i].id = v.election_id
                         /\ \E i \in 1..Len(rows["candidates"]) :
                               rows["candidates"][i].id = v.candidate_id)
                     => /\ lastExt'.result = "ok"
                        /\ Len(rows'["votes"]) = Len(rows["votes"]) + 1
                        /\ \E i \in 1..Len(rows'["votes"]) :
                              /\ rows'["votes"][i].voter_id = v.voter_id
                              /\ rows'["votes"][i].election_id = v.election_id
                              /\ rows'["votes"][i].candidate_id = v.candidate_id]_vars

\* A voter has voted in two elections and a further vote of that voter in
\* one of them has just been refused.
C2_Witness ==
    /\ lastExt.table = "votes"
    /\ lastExt.result = "UniqueViolation"
    /\ \E i \in 1..Len(rows["votes"]) : \E j \in 1..Len(rows["votes"]) :
          /\ rows["votes"][i].voter_id = lastExt.row.voter_id
          /\ rows["votes"][j].voter_id = lastExt.row.voter_id
          /\ rows["votes"][i].election_id = lastExt.row.election_id
          /\ rows["votes"][j].election_id # lastExt.row.election_id

\* --------------------------------------------------------------- C6
\* C6: under every interleaving of init_db runs of different processes and
\* of admin statements of callers, admins never holds two rows with
\* username 'admin'; an INSERT of such a row (the one of init_db or one of a
\* caller) and a rename to 'admin' that find one committed are refused with
\* a uniqueness violation and change no row.
C6_OneDefaultAdmin ==
    /\ [](Cardinality({i \in 1..Len(rows["admins"]) :
                          rows["admins"][i].username = "admin"}) <= 1)
    /\ [][(\E i \in 1..Len(rows["admins"]) : rows["admins"][i].username = "admin")
          => /\ \A p \in Procs :
                   InitInsert(p) =>
                       /\ outcome'[p].status = "raised"
                       /\ outcome'[p].error = "UniqueViolation"
                       /\ rows' = rows
             /\ \A v \in CallerRows("admins") :
                   (CallerInsert("admins", v) /\ v.username = "admin") =>
                       /\ lastExt'.result = "UniqueViolation"
                       /\ rows' = rows
             /\ \A v \in CallerRows("admins") :
                   (CallerUpdate("admins", "root", v) /\ v.username = "admin") =>
                       /\ lastExt'.result = "UniqueViolation"
                       /\ rows' = rows]_vars

\* Two runs raced on the check-then-insert and the loser's INSERT was
\* refused: its init_db raised the uniqueness violation.
C6_Witness ==
    \E p \in Procs :
        /\ outcome[p].op = "init_db"
        /\ outcome[p].error = "UniqueViolation"

\* -------------------------------------------------------------- C10
\* C10: no step of init_db changes or removes a committed row: every row of
\* every table is, after the step, where it was and as it was, and the
\* tables other than constituencies and admins are untouched.
C10_RowsPreserved ==
    [][\A p \in Procs :
          InitDbStep(p) =>
              /\ \A t \in Tables :
                    /\ Len(rows'[t]) >= Len(rows[t])
                    /\ \A i \in 1..Len(rows[t]) : rows'[t][i] = rows[t][i]
              /\ \A t \in Tables \ {"constituencies", "admins"} :
                    rows'[t] = rows[t]]_vars

\* A run of init_db has checked for the default administrator and found the
\* row with a changed password, while the seeded constituency Araku carries
\* another state than the seed gives it.
C10_Witness ==
    /\ pc["p1"] = "commit"
    /\ existing_admin["p1"] # <<>>
    /\ existing_admin["p1"][1].password = hash_password("s3cret")
    /\ \E i \in 1..Len(rows["constituencies"]) :
          /\ rows["constituencies"][i].name = "Araku"
          /\ rows["constituencies"][i].state = "Telangana"

=============================================================================
